---- MODULE Spec2Model ----
(***************************************************************************)
(* Model of Moon_Data/Moon_Classification_Exercise.ipynb: the notebook's   *)
(* authored functions (make_csv, evaluate, delete_endpoint), the           *)
(* classifier it deploys, and the order in which its cells run.            *)
(*                                                                         *)
(* Numbers: a class score and a ratio of two counts are held as the        *)
(* fraction <<num, den>> in lowest terms with den > 0, which identifies    *)
(* the float a division yields for counts this small; a zero denominator   *)
(* yields NaN, as numpy's true division of integers does.                  *)
(***************************************************************************)
EXTENDS Integers, Sequences, FiniteSets, TLC

VARIABLES
    mode,          \* which part of the notebook the behaviour exercises
    calls,         \* number of calls made so far of the function under study
    outcome,       \* how the last call or cell ended: "none", "returned", "raised"
    stdout,        \* lines printed so far
    \* evaluate
    test_labels,   \* Y_test, the true labels, a sequence over {0,1}
    response,      \* what the endpoint answers for X_test: an N x 1 column of scores
    verbose,       \* the verbose argument
    test_preds,    \* the rounded, squeezed predictions of the last call
    metrics,       \* notebook global `metrics`: the dictionary evaluate returned
    \* deployment
    predictor,     \* notebook global `predictor`: None or an object with an endpoint name
    endpoints,     \* names of the endpoints that exist in the remote service
    requests,      \* number of delete requests sent to the remote service
    \* files
    x,             \* X_train, a sequence of feature vectors
    y,             \* Y_train, a sequence of labels
    filename,      \* name of the csv file
    dirs,          \* directories that exist locally
    files,         \* local files: path -> sequence of rows
    \* notebook run
    pc,            \* index of the next cell to run
    ran,           \* the cells run so far with how each ended, in run order
    halted,        \* the run stopped at a cell that raised
    estimator,     \* notebook global `estimator`
    s3,            \* object keys in the bucket
    \* classifier
    net,           \* parameters of the network
    net_in,        \* input feature vector
    net_out        \* None, or the output score and the class it rounds to

callVars == <<mode, calls, outcome, stdout>>
evalVars == <<test_labels, response, verbose, test_preds, metrics>>
deployVars == <<predictor, endpoints, requests>>
fileVars == <<x, y, filename, dirs, files>>
runVars == <<pc, ran, halted, estimator, s3>>
netVars == <<net, net_in, net_out>>

vars == <<callVars, evalVars, deployVars, fileVars, runVars, netVars>>

----------------------------------------------------------------------------
(* Bounds *)

MaxN == 4          \* longest batch of test examples
MaxCalls == 2      \* how often a function is called again in one behaviour
MaxEndpoints == 3  \* number of distinct endpoint names
MaxRows == 2       \* longest training split written to a file
MaxInput == 2      \* largest magnitude of an input feature of the classifier

----------------------------------------------------------------------------
(* Values *)

None == "None"

\* the None object where an object with attributes is expected
NoneObj == [type |-> "NoneType"]

\* whether reading o.a succeeds; on None it raises AttributeError
HasAttr(o, a) == a \in DOMAIN o
\* not-a-number, the float 0/0 yields, and infinity, which n/0 yields for n > 0
NaN == <<0, 0>>
Inf == <<1, 0>>

Labels == {0, 1}

\* scores an endpoint answers with: 0.0, 0.5, 0.6, 1.0
ScoreSet == {<<0, 1>>, <<1, 2>>, <<3, 5>>, <<1, 1>>}

SeqsUpTo(S, n) == UNION {[1..k -> S] : k \in 0..n}

EndpointNames == 1..MaxEndpoints

\* a deployed predictor: an object with a predict method whose .endpoint is
\* the endpoint's name
Predictors == {[endpoint |-> e, predict |-> "method"] : e \in EndpointNames}

----------------------------------------------------------------------------
(* numpy helpers used by evaluate *)

\* np.round of a non-negative score: the nearest integer, a tie goes to the even one
Round(s) ==
    LET q == s[1] \div s[2]
        r == s[1] % s[2]
    IN  IF 2 * r < s[2] THEN q
        ELSE IF 2 * r > s[2] THEN q + 1
        ELSE IF q % 2 = 0 THEN q ELSE q + 1

\* np.squeeze of an N x 1 column: the N values
Squeeze(col) == [i \in DOMAIN col |-> col[i][1]]

\* Complement with the 1 dropped: -a
Negate(a) == [i \in DOMAIN a |-> 0 - a[i]]

\* 1 - a, elementwise
Complement(a) == [i \in DOMAIN a |-> 1 - a[i]]

\* LogicalAnd with the connective exchanged
LogicalOr(a, b) == [i \in DOMAIN a |-> (a[i] # 0) \/ (b[i] # 0)]

\* np.logical_and(a, b): elementwise, a value is true when it is not zero
LogicalAnd(a, b) == [i \in DOMAIN a |-> (a[i] # 0) /\ (b[i] # 0)]

\* .sum() of a boolean array: the number of true entries
RECURSIVE SumTrue(_)
SumTrue(b) ==
    IF Len(b) = 0 THEN 0
    ELSE (IF b[Len(b)] THEN 1 ELSE 0) + SumTrue(SubSeq(b, 1, Len(b) - 1))

RECURSIVE Gcd(_, _)
Gcd(a, b) == IF b = 0 THEN a ELSE Gcd(b, a % b)

\* Div with a guard: a zero denominator gives the default 0
DivGuarded(a, b) ==
    IF b = 0 THEN <<0, 1>>
    ELSE LET g == Gcd(a, b) IN <<a \div g, b \div g>>

\* a / b on non-negative numpy integers: the ratio; nothing is raised when b
\* is zero
Div(a, b) ==
    IF b = 0 THEN (IF a = 0 THEN NaN ELSE Inf)
    ELSE LET g == Gcd(a, b) IN <<a \div g, b \div g>>

----------------------------------------------------------------------------
(* evaluate(predictor, test_features, test_labels, verbose) *)

\* np.squeeze(np.round(predictor.predict(test_features)))
TestPreds(resp) == Squeeze([i \in DOMAIN resp |-> <<Round(resp[i][1])>>])

\* Recall with the false positives in place of the false negatives
RecallSwapped(tp, fp, tn, fn) == Div(tp, tp + fp)

Recall(tp, fp, tn, fn) == Div(tp, tp + fn)

Precision(tp, fp, tn, fn) == Div(tp, tp + fp)

\* Accuracy with the true negatives left out of the numerator
AccuracyOfPositives(tp, fp, tn, fn) == Div(tp, tp + fp + tn + fn)

Accuracy(tp, fp, tn, fn) == Div(tp + tn, tp + fp + tn + fn)

\* the dictionary evaluate returns
EvaluateResult(labels, preds) ==
    LET tp == SumTrue(LogicalAnd(labels, preds))
        fp == SumTrue(LogicalAnd(Complement(labels), preds))
        tn == SumTrue(LogicalAnd(Complement(labels), Complement(preds)))
        fn == SumTrue(LogicalAnd(labels, Complement(preds)))
    IN  [TP |-> tp, FP |-> fp, FN |-> fn, TN |-> tn,
         Precision |-> Precision(tp, fp, tn, fn),
         Recall |-> Recall(tp, fp, tn, fn),
         Accuracy |-> Accuracy(tp, fp, tn, fn)]

\* what verbose=True prints: the crosstab, then the three formatted rates
EvaluatePrints(m) ==
    <<"crosstab", <<"Recall:", m.Recall>>, <<"Precision:", m.Precision>>,
      <<"Accuracy:", m.Accuracy>>, "">>

\* EvaluateCall with 1-test_labels computed in place, into the caller's array
EvaluateCallInPlace(p, vb) ==
    IF ~HasAttr(p, "predict")
    THEN /\ outcome' = "raised"
         /\ UNCHANGED <<evalVars, stdout>>
    ELSE LET preds == TestPreds(response)
             m == EvaluateResult(test_labels, preds)
         IN  /\ test_preds' = preds
             /\ metrics' = m
             /\ stdout' = IF vb THEN stdout \o EvaluatePrints(m) ELSE stdout
             /\ outcome' = "returned"
             /\ test_labels' = Complement(test_labels)
             /\ UNCHANGED <<response, verbose>>

\* metrics = evaluate(p, X_test, Y_test, vb): with no predictor object the
\* attribute lookup p.predict raises before anything is computed or assigned
EvaluateCall(p, vb) ==
    IF ~HasAttr(p, "predict")
    THEN /\ outcome' = "raised"
         /\ UNCHANGED <<evalVars, stdout>>
    ELSE LET preds == TestPreds(response)
             m == EvaluateResult(test_labels, preds)
         IN  /\ test_preds' = preds
             /\ metrics' = m
             /\ stdout' = IF vb THEN stdout \o EvaluatePrints(m) ELSE stdout
             /\ outcome' = "returned"
             /\ UNCHANGED <<test_labels, response, verbose>>

----------------------------------------------------------------------------
(* Initial values of the parts a behaviour does not exercise *)

CallInit == calls = 0 /\ outcome = "none" /\ stdout = <<>>

EvalIdle ==
    /\ test_labels = <<>> /\ response = <<>> /\ verbose = TRUE
    /\ test_preds = None /\ metrics = None

DeployIdle == predictor = NoneObj /\ endpoints = {} /\ requests = 0

FileIdle ==
    /\ x = <<>> /\ y = <<>> /\ filename = "train.csv"
    /\ dirs = {} /\ files = {}

RunIdle ==
    /\ pc = 0 /\ ran = <<>> /\ halted = FALSE
    /\ estimator = NoneObj /\ s3 = {}

NetIdle == net = None /\ net_in = None /\ net_out = None

----------------------------------------------------------------------------
(* evaluate called on a deployed predictor *)

InitEvaluate ==
    /\ mode = "evaluate"
    /\ CallInit
    /\ test_labels \in SeqsUpTo(Labels, MaxN)
    /\ response \in [1..Len(test_labels) -> {<<s>> : s \in ScoreSet}]
    /\ verbose \in BOOLEAN
    /\ test_preds = None
    /\ metrics = None
    /\ predictor \in Predictors
    /\ endpoints = {predictor.endpoint}
    /\ requests = 0
    /\ FileIdle /\ RunIdle /\ NetIdle

Evaluate ==
    /\ mode = "evaluate"
    /\ calls < MaxCalls
    /\ EvaluateCall(predictor, verbose)
    /\ calls' = calls + 1
    /\ UNCHANGED <<mode, deployVars, fileVars, runVars, netVars>>

NextEvaluate == Evaluate

SpecEvaluate == InitEvaluate /\ [][NextEvaluate]_vars

----------------------------------------------------------------------------
(* delete_endpoint(predictor) *)

\* DeleteEndpointCall with a second attempt after a failed request
DeleteEndpointCallRetry(p, ok) ==
    IF ~HasAttr(p, "endpoint")
    THEN /\ outcome' = "raised"
         /\ UNCHANGED <<endpoints, requests, stdout>>
    ELSE IF ok /\ p.endpoint \in endpoints
    THEN /\ requests' = requests + 1
         /\ endpoints' = endpoints \ {p.endpoint}
         /\ stdout' = Append(stdout, <<"Deleted", p.endpoint>>)
         /\ outcome' = "returned"
    ELSE /\ requests' = requests + 2
         /\ stdout' = Append(stdout, <<"Already deleted:", p.endpoint>>)
         /\ outcome' = "returned"
         /\ UNCHANGED endpoints

\* One call.  ok: the request reaches the service and is accepted; the
\* service refuses to delete an endpoint that does not exist.  Reading
\* predictor.endpoint raises when the predictor has no such attribute: first
\* inside the try, and again inside the except clause, whose print formats
\* predictor.endpoint too; that second exception leaves the function.
DeleteEndpointCall(p, ok) ==
    IF ~HasAttr(p, "endpoint")
    THEN /\ outcome' = "raised"
         /\ UNCHANGED <<endpoints, requests, stdout>>
    ELSE IF ok /\ p.endpoint \in endpoints
    THEN /\ requests' = requests + 1
         /\ endpoints' = endpoints \ {p.endpoint}
         /\ stdout' = Append(stdout, <<"Deleted", p.endpoint>>)
         /\ outcome' = "returned"
    ELSE /\ requests' = requests + 1
         /\ stdout' = Append(stdout, <<"Already deleted:", p.endpoint>>)
         /\ outcome' = "returned"
         /\ UNCHANGED endpoints

InitDelete ==
    /\ mode = "delete"
    /\ CallInit
    /\ predictor \in Predictors \cup {NoneObj}
    /\ endpoints \in SUBSET EndpointNames
    /\ requests = 0
    /\ EvalIdle /\ FileIdle /\ RunIdle /\ NetIdle

DeleteEndpoint ==
    /\ mode = "delete"
    /\ calls < MaxCalls
    /\ \E ok \in BOOLEAN : DeleteEndpointCall(predictor, ok)
    /\ calls' = calls + 1
    /\ UNCHANGED <<mode, predictor, evalVars, fileVars, runVars, netVars>>

NextDelete == DeleteEndpoint

SpecDelete == InitDelete /\ [][NextDelete]_vars

----------------------------------------------------------------------------
(* make_csv(x, y, filename, data_dir) *)

DataDir == "data_moon"
Filenames == {"train.csv", "test.csv"}

FeatureVals == {0, 1}
Points == {<<a, b>> : a \in FeatureVals, b \in FeatureVals}

\* a file is <<directory, name, rows>>
FilesAt(fs, dir, name) == {f \in fs : f[1] = dir /\ f[2] = name}

\* One call: creates data_dir when it is missing, writes nothing (the body
\* between makedirs and the print is left to be filled in), prints the path.
MakeCsvCall(xx, yy, fname, data_dir) ==
    /\ dirs' = (IF data_dir \notin dirs THEN dirs \cup {data_dir} ELSE dirs)
    /\ files' = files
    /\ stdout' = Append(stdout, <<"Path created: ", data_dir, "/", fname>>)
    /\ outcome' = "returned"

\* the local disk before the call: the directory may exist, and may hold a
\* file of that name written earlier
DiskBefore(fname) ==
    /\ dirs \in {{}, {DataDir}}
    /\ files \in {{}} \cup
           (IF DataDir \in dirs THEN {{<<DataDir, fname, <<<<0, 0, 0>>>> >>}} ELSE {})

InitCsv ==
    /\ mode = "csv"
    /\ CallInit
    /\ y \in SeqsUpTo(Labels, MaxRows)
    /\ x \in [1..Len(y) -> Points]
    /\ filename \in Filenames
    /\ DiskBefore(filename)
    /\ EvalIdle /\ DeployIdle /\ RunIdle /\ NetIdle

MakeCsv ==
    /\ mode = "csv"
    /\ calls < MaxCalls
    /\ MakeCsvCall(x, y, filename, DataDir)
    /\ calls' = calls + 1
    /\ UNCHANGED <<mode, x, y, filename, evalVars, deployVars, runVars, netVars>>

NextCsv == MakeCsv

SpecCsv == InitCsv /\ [][NextCsv]_vars

----------------------------------------------------------------------------
(* The notebook's cells, run one at a time from top to bottom.  A cell that *)
(* raises ends a run of all cells; run cell by cell, the next cell is run   *)
(* all the same.                                                            *)

CellOrder ==
    <<"dataset", "file", "upload", "estimator", "train", "deploy",
      "evaluate", "teardown">>

\* the cell's position in the notebook
RECURSIVE CellIndexFrom(_, _)
CellIndexFrom(name, i) ==
    IF CellOrder[i] = name THEN i ELSE CellIndexFrom(name, i + 1)

CellIndex(name) == CellIndexFrom(name, 1)

\* a name no cell has assigned yet
Unbound == [type |-> "Unbound"]

Prefix == "sagemaker/moon-data"

InitNotebook ==
    /\ mode = "notebook"
    /\ CallInit
    /\ pc = 1 /\ ran = <<>> /\ halted = FALSE
    /\ estimator = Unbound /\ predictor = Unbound
    /\ endpoints = {} /\ requests = 0 /\ s3 = {}
    /\ x = <<>> /\ y = <<>> /\ filename = "train.csv"
    /\ DiskBefore(filename)
    /\ EvalIdle /\ NetIdle

\* the cell at position pc is the one to run
AtCell(name) ==
    /\ mode = "notebook"
    /\ ~halted
    /\ pc = CellIndex(name)

\* bookkeeping of a cell that ended with outcome': the run goes on to the
\* next cell, or stops if the cell raised
CellEnds(name) ==
    /\ ran' = Append(ran, <<name, outcome'>>)
    /\ pc' = pc + 1
    /\ halted' \in (IF outcome' = "raised" THEN BOOLEAN ELSE {FALSE})
    /\ UNCHANGED <<mode, calls, netVars>>

\* X, Y = make_moons(...); X_train, X_test, Y_train, Y_test = train_test_split(...)
CellDataset ==
    /\ AtCell("dataset")
    /\ \E yy \in SeqsUpTo(Labels, MaxRows), tl \in SeqsUpTo(Labels, MaxRows) :
           /\ y' = yy
           /\ x' \in [1..Len(yy) -> Points]
           /\ test_labels' = tl
    /\ outcome' = "returned"
    /\ CellEnds("dataset")
    /\ UNCHANGED <<stdout, response, verbose, test_preds, metrics, deployVars,
                   filename, dirs, files, estimator, s3>>

\* make_csv(X_train, Y_train, name, data_dir)
CellFile ==
    /\ AtCell("file")
    /\ MakeCsvCall(x, y, filename, DataDir)
    /\ CellEnds("file")
    /\ UNCHANGED <<evalVars, deployVars, x, y, filename, estimator, s3>>

\* input_data = sagemaker_session.upload_data(path=data_dir, ...): every file
\* of the directory is stored under the prefix
CellUpload ==
    /\ AtCell("upload")
    /\ s3' = s3 \cup {<<Prefix, f[2]>> : f \in {g \in files : g[1] = DataDir}}
    /\ stdout' = Append(stdout, <<"s3://", Prefix>>)
    /\ outcome' = "returned"
    /\ CellEnds("upload")
    /\ UNCHANGED <<evalVars, deployVars, fileVars, estimator>>

\* output_path = None; estimator = None
CellEstimator ==
    /\ AtCell("estimator")
    /\ estimator' = NoneObj
    /\ outcome' = "returned"
    /\ CellEnds("estimator")
    /\ UNCHANGED <<stdout, evalVars, deployVars, fileVars, s3>>

\* estimator.fit({'train': input_data})
CellTrain ==
    /\ AtCell("train")
    /\ outcome' = (IF HasAttr(estimator, "fit") THEN "returned" ELSE "raised")
    /\ CellEnds("train")
    /\ UNCHANGED <<stdout, evalVars, deployVars, fileVars, estimator, s3>>

\* model = None; predictor = None
CellDeploy ==
    /\ AtCell("deploy")
    /\ predictor' = NoneObj
    /\ outcome' = "returned"
    /\ CellEnds("deploy")
    /\ UNCHANGED <<stdout, evalVars, endpoints, requests, fileVars, estimator, s3>>

\* metrics = evaluate(predictor, X_test, Y_test, True)
CellEvaluate ==
    /\ AtCell("evaluate")
    /\ EvaluateCall(predictor, TRUE)
    /\ CellEnds("evaluate")
    /\ UNCHANGED <<deployVars, fileVars, estimator, s3>>

\* delete_endpoint(predictor)
CellTeardown ==
    /\ AtCell("teardown")
    /\ \E ok \in BOOLEAN : DeleteEndpointCall(predictor, ok)
    /\ CellEnds("teardown")
    /\ UNCHANGED <<evalVars, predictor, fileVars, estimator, s3>>

NextNotebook ==
    \/ CellDataset
    \/ CellFile
    \/ CellUpload
    \/ CellEstimator
    \/ CellTrain
    \/ CellDeploy
    \/ CellEvaluate
    \/ CellTeardown

SpecNotebook == InitNotebook /\ [][NextNotebook]_vars

----------------------------------------------------------------------------
(* The classifier SimpleNet of source/model.py: input_dim features, one     *)
(* fully-connected hidden layer with a ReLU, one fully-connected output     *)
(* unit with a sigmoid.  Weights, biases and features are integers.         *)

InputDim == 2
HiddenDim == 2

WeightVals == {-1, 1}
BiasVals == {-1, 0, 1}
InputVals == (0 - MaxInput)..MaxInput

RECURSIVE Pow2(_)
Pow2(n) == IF n = 0 THEN 1 ELSE 2 * Pow2(n - 1)

RECURSIVE Dot(_, _)
Dot(w, v) ==
    IF Len(w) = 0 THEN 0
    ELSE w[Len(w)] * v[Len(v)]
         + Dot(SubSeq(w, 1, Len(w) - 1), SubSeq(v, 1, Len(v) - 1))

ReLU(z) == IF z > 0 THEN z ELSE 0

\* Sigmoid left out: the raw output of the last layer
SigmoidOmitted(z) == <<z, 1>>

\* the logistic function 1 / (1 + b^(-z)) as a fraction; the base b is taken
\* as 2 so that the value is exact: its range and its order are those of
\* the function with base e
Sigmoid(z) ==
    IF z >= 0 THEN <<Pow2(z), Pow2(z) + 1>> ELSE <<1, 1 + Pow2(0 - z)>>

\* forward pass: the class score of one feature vector
Forward(n, v) ==
    LET h == [j \in 1..HiddenDim |-> ReLU(Dot(n.w1[j], v) + n.b1[j])]
    IN  Sigmoid(Dot(n.w2, h) + n.b2)

InitNet ==
    /\ mode = "net"
    /\ CallInit
    /\ net \in [w1 : [1..HiddenDim -> [1..InputDim -> WeightVals]],
                b1 : {[j \in 1..HiddenDim |-> 0]},
                w2 : [1..HiddenDim -> WeightVals],
                b2 : BiasVals]
    /\ net_in \in [1..InputDim -> InputVals]
    /\ net_out = None
    /\ EvalIdle /\ DeployIdle /\ FileIdle /\ RunIdle

\* one prediction: the score, and the class evaluate rounds it to
Predict ==
    /\ mode = "net"
    /\ calls < 1
    /\ LET score == Forward(net, net_in)
       IN  net_out' = [score |-> score, class |-> Round(score)]
    /\ calls' = calls + 1
    /\ outcome' = "returned"
    /\ UNCHANGED <<mode, stdout, net, net_in, evalVars, deployVars, fileVars, runVars>>

NextNet == Predict

SpecNet == InitNet /\ [][NextNet]_vars

----------------------------------------------------------------------------
(* Properties of evaluate, under SpecEvaluate *)

Evaluated == mode = "evaluate" /\ calls >= 1 /\ outcome = "returned"

\* positions of the batch with true label l and rounded prediction p
Cell(l, p) == {i \in DOMAIN test_labels : test_labels[i] = l /\ test_preds[i] = p}

\* r is the ratio n / d
IsRatio(r, n, d) == r[2] > 0 /\ r[1] * d = n * r[2]

One == <<1, 1>>
Zero == <<0, 1>>

\* C1: evaluate returns TP = number of positions with label 1 and prediction 1,
\* FP = number with label 0 and prediction 1, TN = number with label 0 and
\* prediction 0, FN = number with label 1 and prediction 0.
C1_CountsAreCells ==
    Evaluated =>
        /\ metrics.TP = Cardinality(Cell(1, 1))
        /\ metrics.FP = Cardinality(Cell(0, 1))
        /\ metrics.TN = Cardinality(Cell(0, 0))
        /\ metrics.FN = Cardinality(Cell(1, 0))

C1_Witness ==
    /\ Evaluated
    /\ metrics.TP = 1 /\ metrics.FP = 1 /\ metrics.TN = 1 /\ metrics.FN = 1

\* C2: the four counts are non-negative integers and add up to the number of
\* examples evaluated.
C2_CountsSumToN ==
    Evaluated =>
        /\ {metrics.TP, metrics.FP, metrics.TN, metrics.FN} \subseteq Nat
        /\ metrics.TP + metrics.FP + metrics.TN + metrics.FN = Len(test_labels)

C2_Witness ==
    /\ Evaluated
    /\ Len(test_labels) = 3
    /\ metrics.FP >= 1 /\ metrics.FN >= 1

\* C3: with non-zero denominators Recall = TP/(TP+FN), Precision = TP/(TP+FP)
\* and Accuracy = (TP+TN)/(TP+FP+TN+FN), as ratios of the returned counts; for
\* labels [1,0,1,1] and rounded predictions [1,0,0,1] the result is TP=2,
\* FP=0, TN=1, FN=1, recall 2/3, precision 1, accuracy 3/4.
C3_RatesAreRatios ==
    Evaluated =>
        LET tp == metrics.TP
            fp == metrics.FP
            tn == metrics.TN
            fn == metrics.FN
        IN  /\ (tp + fn # 0 => IsRatio(metrics.Recall, tp, tp + fn))
            /\ (tp + fp # 0 => IsRatio(metrics.Precision, tp, tp + fp))
            /\ (tp + fp + tn + fn # 0 =>
                    IsRatio(metrics.Accuracy, tp + tn, tp + fp + tn + fn))
            /\ (test_labels = <<1, 0, 1, 1>> /\ test_preds = <<1, 0, 0, 1>> =>
                    /\ tp = 2 /\ fp = 0 /\ tn = 1 /\ fn = 1
                    /\ metrics.Recall = <<2, 3>>
                    /\ metrics.Precision = One
                    /\ metrics.Accuracy = <<3, 4>>)

C3_Witness ==
    /\ Evaluated
    /\ test_labels = <<1, 0, 1, 1>>
    /\ test_preds = <<1, 0, 0, 1>>

AllCorrect == \A i \in DOMAIN test_labels : test_preds[i] = test_labels[i]
AllIncorrect == \A i \in DOMAIN test_labels : test_preds[i] # test_labels[i]

DenominatorsNonZero ==
    /\ metrics.TP + metrics.FN # 0
    /\ metrics.TP + metrics.FP # 0

AllThree(v) ==
    metrics.Precision = v /\ metrics.Recall = v /\ metrics.Accuracy = v

\* C4 as stated: for every non-empty batch, all predictions correct gives
\* precision = recall = accuracy = 1; all predictions incorrect gives 0 for
\* all three when the denominators are non-zero.
C4_AsStated ==
    (Evaluated /\ Len(test_labels) > 0) =>
        /\ (AllCorrect => AllThree(One))
        /\ ((AllIncorrect /\ DenominatorsNonZero) => AllThree(Zero))

\* C4 amended: for every non-empty batch, all predictions correct gives
\* accuracy = 1, and precision = recall = 1 when their denominators are
\* non-zero; all predictions incorrect gives accuracy = 0, and precision =
\* recall = 0 when their denominators are non-zero.
C4_Boundary ==
    (Evaluated /\ Len(test_labels) > 0) =>
        /\ (AllCorrect =>
                /\ metrics.Accuracy = One
                /\ (DenominatorsNonZero => AllThree(One)))
        /\ (AllIncorrect =>
                /\ metrics.Accuracy = Zero
                /\ (DenominatorsNonZero => AllThree(Zero)))

C4_Witness ==
    /\ Evaluated
    /\ Len(test_labels) = 3
    /\ AllCorrect
    /\ DenominatorsNonZero
    /\ metrics.TN >= 1

\* C5: a second call of evaluate with the same predictor, features and labels
\* returns the same counts and metrics as the first.
C5_SecondCallSame ==
    [][(Evaluated /\ calls' = calls + 1) =>
           (metrics' = metrics /\ test_preds' = test_preds)]_vars

C5_Witness ==
    /\ mode = "evaluate"
    /\ calls = 2
    /\ metrics.TP >= 1 /\ metrics.FN >= 1

----------------------------------------------------------------------------
(* Properties of delete_endpoint, under SpecDelete *)

\* C6: delete_endpoint never propagates an error: whatever fails while it
\* attempts the delete, it returns normally after reporting the endpoint as
\* already deleted.
C6_NeverRaises ==
    (mode = "delete" /\ calls >= 1) => outcome = "returned"

----------------------------------------------------------------------------
(* Properties of make_csv, under SpecCsv *)

MadeCsv == mode = "csv" /\ calls >= 1 /\ outcome = "returned"

\* reading a row back: the (label, features) pair
ReadRow(row) == <<row[1], SubSeq(row, 2, Len(row))>>

\* C7: after make_csv returns, reading the file at data_dir/filename back
\* gives the original (label, features) pairs in the same row order.
C7_RoundTrip ==
    MadeCsv =>
        \E f \in FilesAt(files, DataDir, filename) :
            [i \in DOMAIN f[3] |-> ReadRow(f[3][i])] = [i \in DOMAIN y |-> <<y[i], x[i]>>]

\* C8: after make_csv returns, a file exists at data_dir/filename with no
\* header row, one row per example, and in every row the label first and
\* the features after it.
C8_FileLayout ==
    MadeCsv =>
        /\ DataDir \in dirs
        /\ Cardinality(FilesAt(files, DataDir, filename)) = 1
        /\ \A f \in FilesAt(files, DataDir, filename) :
               /\ Len(f[3]) = Len(y)
               /\ \A i \in DOMAIN f[3] :
                      /\ f[3][i][1] = y[i]
                      /\ SubSeq(f[3][i], 2, Len(f[3][i])) = x[i]

----------------------------------------------------------------------------
(* Properties of the run of the notebook, under SpecNotebook *)

HasRun(name) == \E i \in DOMAIN ran : ran[i][1] = name

EndpointDeployed ==
    HasAttr(predictor, "endpoint") /\ predictor.endpoint \in endpoints

\* C9: the steps run one after the other in the order dataset, file, upload,
\* training, deployment, evaluation, teardown; no step begins before the
\* step before it has completed, so evaluation is never performed against an
\* endpoint that has not been deployed, and teardown never precedes
\* evaluation.
C9_StepsInOrder ==
    mode = "notebook" =>
        /\ \A i \in DOMAIN ran : ran[i][1] = CellOrder[i]
        /\ \A i \in DOMAIN ran : i > 1 => ran[i - 1][2] = "returned"
        /\ (pc = CellIndex("evaluate") + 1 => EndpointDeployed)
        /\ (HasRun("teardown") => HasRun("evaluate"))

----------------------------------------------------------------------------
(* Properties of the classifier, under SpecNet *)

\* C10: the classifier's output is a single scalar in [0,1], so that
\* rounding it yields a class in {0,1}.
C10_ScoreInUnitInterval ==
    (mode = "net" /\ calls >= 1) =>
        /\ net_out.score \in Int \X Int
        /\ net_out.score[2] > 0
        /\ 0 <= net_out.score[1]
        /\ net_out.score[1] <= net_out.score[2]
        /\ net_out.class \in {0, 1}

C10_Witness ==
    /\ mode = "net" /\ calls >= 1
    /\ net_in[1] < 0
    /\ 2 * net_out.score[1] > net_out.score[2]
    /\ net_out.class = 1

----------------------------------------------------------------------------
(* Zero denominators in evaluate, under SpecEvaluate *)

\* a call of evaluate has ended, in whatever way
EvaluateEnded == mode = "evaluate" /\ calls >= 1

\* C11: evaluate has no zero-denominator guard and no smoothing: with no
\* positive labels (TP+FN = 0) or no positive predictions (TP+FP = 0) it
\* raises nothing and substitutes no default; the affected rate is the
\* undefined result of the division, nan, and the four counts and the rates
\* with a non-zero denominator are returned as they are otherwise.
C11_ZeroDenominatorUnguarded ==
    EvaluateEnded =>
        LET pos == Cardinality({i \in DOMAIN test_labels : test_labels[i] = 1})
            predpos == Cardinality({i \in DOMAIN test_preds : test_preds[i] = 1})
            n == Len(test_labels)
        IN  /\ outcome = "returned"
            /\ (pos = 0 => metrics.Recall = NaN)
            /\ (predpos = 0 => metrics.Precision = NaN)
            /\ (pos = 0 \/ predpos = 0) =>
                   /\ metrics.TP = 0
                   /\ metrics.FP = predpos
                   /\ metrics.FN = pos
                   /\ metrics.TN = n - pos - predpos
                   /\ (pos # 0 => metrics.Recall = Zero)
                   /\ (predpos # 0 => metrics.Precision = Zero)
                   /\ (n # 0 => IsRatio(metrics.Accuracy, n - pos - predpos, n))

C11_Witness ==
    /\ EvaluateEnded
    /\ outcome = "returned"
    /\ Len(test_labels) = 3
    /\ metrics.Recall = NaN
    /\ metrics.Precision = Zero
    /\ metrics.FP = 2 /\ metrics.TN = 1

----------------------------------------------------------------------------
(* Repeated teardown, under SpecDelete *)

\* a step that is one call of delete_endpoint on a predictor whose endpoint
\* name can be read
DeleteStep ==
    mode = "delete" /\ calls' = calls + 1 /\ HasAttr(predictor, "endpoint")

\* the call sends one request and returns
OneRequestNoRaise == requests' = requests + 1 /\ outcome' = "returned"

Reported(line, e) == stdout' = Append(stdout, <<line, e>>)

\* the first call of the two was made on a deployed endpoint and said 'Deleted'
FirstDeleted(e) == calls = 1 /\ stdout = <<<<"Deleted", e>>>>

\* C12 as stated: for a deployed predictor with a readable endpoint name, two
\* calls of delete_endpoint in sequence send one delete request each; the
\* first reports 'Deleted' and removes the endpoint, the second reports
\* 'Already deleted'; neither raises, and the endpoint exists after neither.
C12_AsStated ==
    [][DeleteStep =>
          LET e == predictor.endpoint
          IN  /\ OneRequestNoRaise
              /\ (calls = 0 /\ e \in endpoints) =>
                     (Reported("Deleted", e) /\ e \notin endpoints')
              /\ FirstDeleted(e) =>
                     (Reported("Already deleted:", e) /\ e \notin endpoints')]_vars

\* C12 amended: for a deployed predictor with a readable endpoint name, two
\* calls of delete_endpoint in sequence send one delete request each and
\* neither raises; the first call either reports 'Deleted' and removes the
\* endpoint, or, its request having failed, reports 'Already deleted' and
\* leaves the endpoint in existence; after a first call that reported
\* 'Deleted', the second reports 'Already deleted' and the endpoint exists
\* after neither call.
C12_Repeatable ==
    [][DeleteStep =>
          LET e == predictor.endpoint
          IN  /\ OneRequestNoRaise
              /\ (calls = 0 /\ e \in endpoints) =>
                     \/ Reported("Deleted", e) /\ e \notin endpoints'
                     \/ Reported("Already deleted:", e) /\ endpoints' = endpoints
              /\ FirstDeleted(e) =>
                     (Reported("Already deleted:", e) /\ e \notin endpoints')]_vars

C12_Witness ==
    /\ mode = "delete"
    /\ calls = 2
    /\ requests = 2
    /\ outcome = "returned"
    /\ HasAttr(predictor, "endpoint")
    /\ stdout = <<<<"Deleted", predictor.endpoint>>,
                  <<"Already deleted:", predictor.endpoint>>>>
    /\ predictor.endpoint \notin endpoints

====
